---- MODULE Spec2Model ----
(***************************************************************************)
(* Account / lease lifecycle store of pkg/db (db.go).                      *)
(*                                                                         *)
(* The DB service holds no state of its own: the state is the two DynamoDB *)
(* tables it reads and writes.  Every method of DB issues at most one      *)
(* call on db.Client, which DynamoDB executes atomically on one item, so   *)
(* a method is one action and callers interleave at method granularity.    *)
(* The variable ret records what the last finished method returned.        *)
(***************************************************************************)
EXTENDS Integers, Sequences, FiniteSets, TLC

VARIABLES accounts, leases, now, ret, req, calls

vars == <<accounts, leases, now, ret, req, calls>>

(***************************************************************************)
(* Bounds of the model.                                                    *)
(***************************************************************************)
MaxClock == 1
NumCallers == 3

AccountIDs == {"111", "222"}
LeaseAccountIDs == {"111"}
PrincipalIDs == {"u1", "u2"}
LeaseIDs == {"lease-1", "lease-2"}
AccountStatuses == {"NotReady", "Ready", "Leased"}
LeaseStatuses == {"Active", "Inactive"}
LeaseStatusReasons == {"Expired", "Destroyed"}
ExpiresOnValues == {1700000000}
Callers == 1..NumCallers
Times == 0..MaxClock

(***************************************************************************)
(* Records.  A Go value of type Account or Lease is a record over the Go   *)
(* field names; a stored item is a record over the DynamoDB attribute      *)
(* names.  An optional value (a *T that may be nil) is a set with at most  *)
(* one element.                                                            *)
(***************************************************************************)
LeaseFields ==
  {"AccountID", "PrincipalID", "ID", "LeaseStatus", "LeaseStatusReason",
   "LastModifiedOn", "LeaseStatusModifiedOn", "ExpiresOn"}

\* The serialized (json tag) name of a Go field.
FieldTag(fieldName) ==
  CASE fieldName = "AccountID" -> "AccountId"
    [] fieldName = "PrincipalID" -> "PrincipalId"
    [] fieldName = "ID" -> "Id"
    [] fieldName = "Status" -> "AccountStatus"
    [] OTHER -> fieldName

Attr(item, name, zero) == IF name \in DOMAIN item THEN item[name] ELSE zero

unmarshalAccount(item) ==
  [ID |-> Attr(item, "Id", ""),
   Status |-> Attr(item, "AccountStatus", ""),
   LastModifiedOn |-> Attr(item, "LastModifiedOn", 0),
   CreatedOn |-> Attr(item, "CreatedOn", 0),
   AdminRoleArn |-> Attr(item, "AdminRoleArn", ""),
   PrincipalRoleArn |-> Attr(item, "PrincipalRoleArn", ""),
   PrincipalPolicyHash |-> Attr(item, "PrincipalPolicyHash", ""),
   Metadata |-> Attr(item, "Metadata", "")]

unmarshalLease(item) ==
  [AccountID |-> Attr(item, "AccountId", ""),
   PrincipalID |-> Attr(item, "PrincipalId", ""),
   ID |-> Attr(item, "Id", ""),
   LeaseStatus |-> Attr(item, "LeaseStatus", ""),
   LeaseStatusReason |-> Attr(item, "LeaseStatusReason", ""),
   LastModifiedOn |-> Attr(item, "LastModifiedOn", 0),
   LeaseStatusModifiedOn |-> Attr(item, "LeaseStatusModifiedOn", 0),
   ExpiresOn |-> Attr(item, "ExpiresOn", 0)]

(***************************************************************************)
(* The DynamoDB client.  A table is a function from the keys of the items  *)
(* it holds to the items.  io = FALSE is a call that fails in the          *)
(* infrastructure (network, throttling, permission) and has no effect.     *)
(***************************************************************************)
RequestFailure == "RequestFailure"
ConditionalCheckFailedException == "ConditionalCheckFailedException"
ValidationException == "ValidationException"

\* GetItem: the item stored under key, if any.
GetItem(tbl, key, io) ==
  IF ~io THEN [err |-> RequestFailure, item |-> {}]
  ELSE [err |-> "nil", item |-> IF key \in DOMAIN tbl THEN {tbl[key]} ELSE {}]

\* Query on a secondary index: the items whose attribute equals val.
Query(tbl, attr, val, io) ==
  IF ~io THEN [err |-> RequestFailure, items |-> {}]
  ELSE [err |-> "nil",
        items |-> {tbl[k] : k \in {j \in DOMAIN tbl :
                     attr \in DOMAIN tbl[j] /\ tbl[j][attr] = val}}]

\* Variant: a condition expression holds of a missing item.
ConditionHolds_OfMissingItem(tbl, key, cond) ==
  \A c \in cond :
     key \in DOMAIN tbl
        => (c.attr \in DOMAIN tbl[key] /\ tbl[key][c.attr] = c.val)

\* A condition expression holds of the stored item; it fails of a missing one.
ConditionHolds(tbl, key, cond) ==
  \A c \in cond :
     /\ key \in DOMAIN tbl
     /\ c.attr \in DOMAIN tbl[key]
     /\ tbl[key][c.attr] = c.val

\* Variant: the item is replaced by the key and the attributes of sets, as a
\* put does.
UpdatedItem_Replace(tbl, key, keyAttrs, sets) ==
  [a \in DOMAIN keyAttrs \cup DOMAIN sets |->
     IF a \in DOMAIN sets THEN sets[a] ELSE keyAttrs[a]]

\* The item after a SET of the attributes of sets; a missing item is created
\* from the key attributes.
UpdatedItem(tbl, key, keyAttrs, sets) ==
  LET base == IF key \in DOMAIN tbl THEN tbl[key] ELSE keyAttrs IN
  [a \in DOMAIN base \cup DOMAIN sets |->
     IF a \in DOMAIN sets THEN sets[a] ELSE base[a]]

\* Variant: the update is applied before the condition is evaluated.
UpdateItem_WriteThenCheck(tbl, key, keyAttrs, sets, cond, io) ==
  LET item == UpdatedItem(tbl, key, keyAttrs, sets)
      written == [k \in DOMAIN tbl \cup {key} |-> IF k = key THEN item ELSE tbl[k]]
  IN
  IF ~io THEN [err |-> RequestFailure, tbl |-> tbl, attrs |-> {}]
  ELSE IF DOMAIN sets \cap DOMAIN keyAttrs # {}
  THEN [err |-> ValidationException, tbl |-> tbl, attrs |-> {}]
  ELSE IF ~ConditionHolds(tbl, key, cond)
  THEN [err |-> ConditionalCheckFailedException, tbl |-> written, attrs |-> {}]
  ELSE [err |-> "nil", tbl |-> written, attrs |-> {item}]

\* UpdateItem with ReturnValues ALL_NEW.  An update expression that names a
\* key attribute is rejected.
UpdateItem(tbl, key, keyAttrs, sets, cond, io) ==
  IF ~io THEN [err |-> RequestFailure, tbl |-> tbl, attrs |-> {}]
  ELSE IF DOMAIN sets \cap DOMAIN keyAttrs # {}
  THEN [err |-> ValidationException, tbl |-> tbl, attrs |-> {}]
  ELSE IF ~ConditionHolds(tbl, key, cond)
  THEN [err |-> ConditionalCheckFailedException, tbl |-> tbl, attrs |-> {}]
  ELSE LET item == UpdatedItem(tbl, key, keyAttrs, sets) IN
       [err |-> "nil",
        tbl |-> [k \in DOMAIN tbl \cup {key} |->
                   IF k = key THEN item ELSE tbl[k]],
        attrs |-> {item}]

(***************************************************************************)
(* Errors the DB methods return.                                           *)
(***************************************************************************)
StatusTransitionError == "StatusTransitionError"

\* The error of a failed call on db.Client, as the client returned it.
BackingStoreError == "BackingStoreError"

\* errors.Wrap(err, msg): the error err under the message msg.
Wrap(err, msg) == msg \o ": " \o err

(***************************************************************************)
(* GetAccount                                                              *)
(***************************************************************************)
\* Variant: a missing item is reported as an error.
GetAccountCall_MissingIsError(tbl, accountID, io) ==
  LET result == GetItem(tbl, accountID, io) IN
  IF result.err # "nil"
  THEN [err |-> BackingStoreError, val |-> {}, calls |-> 1]
  ELSE IF result.item = {}
  THEN [err |-> "NotFound", val |-> {}, calls |-> 1]
  ELSE [err |-> "nil", val |-> {unmarshalAccount(i) : i \in result.item},
        calls |-> 1]

GetAccountCall(tbl, accountID, io) ==
  LET result == GetItem(tbl, accountID, io) IN
  IF result.err # "nil"
  THEN [err |-> BackingStoreError, val |-> {}, calls |-> 1]
  ELSE IF result.item = {}
  THEN [err |-> "nil", val |-> {}, calls |-> 1]
  ELSE [err |-> "nil", val |-> {unmarshalAccount(i) : i \in result.item},
        calls |-> 1]

(***************************************************************************)
(* FindAccountsByStatus                                                    *)
(*                                                                         *)
(* A returned slice is an optional set: {} is the nil slice, {{}} is the   *)
(* empty slice that is not nil, {S} is the slice of the elements of S (the *)
(* order of the index is not modelled).                                    *)
(***************************************************************************)
\* Variant: the slice is declared without a value and stays nil until the
\* first append.
FindAccountsByStatusCall_NilUntilAppend(tbl, status, io) ==
  LET res == Query(tbl, "AccountStatus", status, io) IN
  IF res.err # "nil"
  THEN [err |-> BackingStoreError, val |-> {}, calls |-> 1]
  ELSE IF res.items = {}
  THEN [err |-> "nil", val |-> {}, calls |-> 1]
  ELSE [err |-> "nil", val |-> {{unmarshalAccount(i) : i \in res.items}},
        calls |-> 1]

FindAccountsByStatusCall(tbl, status, io) ==
  LET res == Query(tbl, "AccountStatus", status, io) IN
  IF res.err # "nil"
  THEN [err |-> BackingStoreError, val |-> {{}}, calls |-> 1]
  ELSE [err |-> "nil", val |-> {{unmarshalAccount(i) : i \in res.items}},
        calls |-> 1]

(***************************************************************************)
(* TransitionAccountStatus                                                 *)
(***************************************************************************)
\* Variant: the update carries no condition expression.
TransitionAccountStatusCondition_None(prevStatus) == {}

TransitionAccountStatusCondition(prevStatus) ==
  {[attr |-> "AccountStatus", val |-> prevStatus]}

\* Variant: the update expression does not set LastModifiedOn.
TransitionAccountStatusUpdate_StatusOnly(nextStatus, t) ==
  [AccountStatus |-> nextStatus]

TransitionAccountStatusUpdate(nextStatus, t) ==
  [AccountStatus |-> nextStatus, LastModifiedOn |-> t]

\* Variant: the error code of the failed update is not inspected.
TransitionAccountStatusCall_NoCodeCheck(tbl, accountID, prevStatus, nextStatus, t, io) ==
  LET result == UpdateItem(tbl, accountID, [Id |-> accountID],
                           TransitionAccountStatusUpdate(nextStatus, t),
                           TransitionAccountStatusCondition(prevStatus), io) IN
  IF result.err # "nil"
  THEN [err |-> BackingStoreError, tbl |-> result.tbl, val |-> {},
        calls |-> 1]
  ELSE [err |-> "nil", tbl |-> result.tbl,
        val |-> {unmarshalAccount(i) : i \in result.attrs}, calls |-> 1]

TransitionAccountStatusCall(tbl, accountID, prevStatus, nextStatus, t, io) ==
  LET result == UpdateItem(tbl, accountID, [Id |-> accountID],
                           TransitionAccountStatusUpdate(nextStatus, t),
                           TransitionAccountStatusCondition(prevStatus), io) IN
  IF result.err = ConditionalCheckFailedException
  THEN [err |-> StatusTransitionError, tbl |-> result.tbl, val |-> {},
        calls |-> 1]
  ELSE IF result.err # "nil"
  THEN [err |-> BackingStoreError, tbl |-> result.tbl, val |-> {},
        calls |-> 1]
  ELSE [err |-> "nil", tbl |-> result.tbl,
        val |-> {unmarshalAccount(i) : i \in result.attrs}, calls |-> 1]

(***************************************************************************)
(* Expression builder                                                      *)
(***************************************************************************)
containsStr(list, item) == item \in list

\* Variant: a field is kept when the include-list does not name it.
SelectedFields_IncludeInverted(obj, excludeFields, includeFields) ==
  {f \in DOMAIN obj :
     LET isExcluded == excludeFields # {} /\ containsStr(excludeFields, f)
         isNotIncluded == includeFields # {} /\ containsStr(includeFields, f)
     IN ~(isExcluded \/ isNotIncluded)}

\* The fields of obj the update expression assigns.
SelectedFields(obj, excludeFields, includeFields) ==
  {f \in DOMAIN obj :
     LET isExcluded == excludeFields # {} /\ containsStr(excludeFields, f)
         isNotIncluded == includeFields # {} /\ ~containsStr(includeFields, f)
     IN ~(isExcluded \/ isNotIncluded)}

\* With no field selected the builder has no operation to compile, and Build
\* returns an error with an expression that assigns nothing.
ConfigurationError == "ConfigurationError"
UnsetParameterError == "UnsetParameterError"

\* sets: the SET clause, serialized field name -> value of the field.
buildUpdateExpression(obj, excludeFields, includeFields) ==
  IF excludeFields # {} /\ includeFields # {}
  THEN [err |-> ConfigurationError, sets |-> [a \in {} |-> 0]]
  ELSE LET sel == SelectedFields(obj, excludeFields, includeFields) IN
       [err |-> IF sel = {} THEN UnsetParameterError ELSE "nil",
        sets |-> [a \in {FieldTag(f) : f \in sel} |->
                    obj[CHOOSE f \in sel : FieldTag(f) = a]]]

(***************************************************************************)
(* UpsertLease                                                             *)
(***************************************************************************)
MissingID == "missing ID"
MissingExpiresOn == "missing ExpiresOn"
ValidationErrors == {MissingID, MissingExpiresOn}

\* Variant: ExpiresOn is not validated.
ValidateLease_IDOnly(lease) ==
  IF lease.ID = "" THEN MissingID ELSE "nil"

ValidateLease(lease) ==
  IF lease.ID = "" THEN MissingID
  ELSE IF lease.ExpiresOn = 0 THEN MissingExpiresOn
  ELSE "nil"

\* Variant: the status reason is excluded from the update as well.
UpsertLeaseExcludeFields_AlsoReason ==
  {"AccountID", "PrincipalID", "LeaseStatusReason"}

UpsertLeaseExcludeFields == {"AccountID", "PrincipalID"}

LeaseKey(accountID, principalID) == <<accountID, principalID>>

LeaseKeyAttrs(accountID, principalID) ==
  [AccountId |-> accountID, PrincipalId |-> principalID]

\* The message UpsertLease puts on the errors it passes on: it names the
\* principal and the account of the lease.
FailedToUpdateLease(principalID, accountID) ==
  "Failed to update lease " \o principalID \o "/" \o accountID

\* Variant: the update is conditional on the stored status being the status
\* of the lease passed in.
UpsertLeaseCall_Guarded(tbl, lease, io) ==
  LET verr == ValidateLease(lease)
      expr == buildUpdateExpression(lease, UpsertLeaseExcludeFields, {})
      res == UpdateItem(tbl, LeaseKey(lease.AccountID, lease.PrincipalID),
                        LeaseKeyAttrs(lease.AccountID, lease.PrincipalID),
                        expr.sets,
                        {[attr |-> "LeaseStatus", val |-> lease.LeaseStatus]}, io)
      msg == FailedToUpdateLease(lease.PrincipalID, lease.AccountID)
  IN
  IF verr # "nil"
  THEN [err |-> verr, tbl |-> tbl, val |-> {}, calls |-> 0]
  ELSE IF expr.err # "nil"
  THEN [err |-> Wrap(expr.err, msg), tbl |-> tbl, val |-> {}, calls |-> 0]
  ELSE IF res.err # "nil"
  THEN [err |-> Wrap(BackingStoreError, msg \o " [" \o res.err \o "]"),
        tbl |-> res.tbl, val |-> {}, calls |-> 1]
  ELSE [err |-> "nil", tbl |-> res.tbl,
        val |-> {unmarshalLease(i) : i \in res.attrs}, calls |-> 1]

UpsertLeaseCall(tbl, lease, io) ==
  LET verr == ValidateLease(lease)
      expr == buildUpdateExpression(lease, UpsertLeaseExcludeFields, {})
      res == UpdateItem(tbl, LeaseKey(lease.AccountID, lease.PrincipalID),
                        LeaseKeyAttrs(lease.AccountID, lease.PrincipalID),
                        expr.sets, {}, io)
      msg == FailedToUpdateLease(lease.PrincipalID, lease.AccountID)
  IN
  IF verr # "nil"
  THEN [err |-> verr, tbl |-> tbl, val |-> {}, calls |-> 0]
  ELSE IF expr.err # "nil"
  THEN [err |-> Wrap(expr.err, msg), tbl |-> tbl, val |-> {}, calls |-> 0]
  ELSE IF res.err # "nil"
  THEN [err |-> Wrap(BackingStoreError, msg \o " [" \o res.err \o "]"),
        tbl |-> res.tbl, val |-> {}, calls |-> 1]
  ELSE [err |-> "nil", tbl |-> res.tbl,
        val |-> {unmarshalLease(i) : i \in res.attrs}, calls |-> 1]

(***************************************************************************)
(* TransitionLeaseStatus                                                   *)
(***************************************************************************)
\* Variant: the update carries no condition expression.
TransitionLeaseStatusCondition_None(prevStatus) == {}

TransitionLeaseStatusCondition(prevStatus) ==
  {[attr |-> "LeaseStatus", val |-> prevStatus]}

\* Variant: the update expression does not set LeaseStatusModifiedOn.
TransitionLeaseStatusUpdate_NoStatusModifiedOn(nextStatus, leaseStatusReason, t) ==
  [LeaseStatus |-> nextStatus, LeaseStatusReason |-> leaseStatusReason,
   LastModifiedOn |-> t]

TransitionLeaseStatusUpdate(nextStatus, leaseStatusReason, t) ==
  [LeaseStatus |-> nextStatus, LeaseStatusReason |-> leaseStatusReason,
   LastModifiedOn |-> t, LeaseStatusModifiedOn |-> t]

\* Variant: an update that failed is issued a second time.
TransitionLeaseStatusCall_Retry(tbl, accountID, principalID, prevStatus, nextStatus, leaseStatusReason, t, io) ==
  LET result == UpdateItem(tbl, LeaseKey(accountID, principalID),
                           LeaseKeyAttrs(accountID, principalID),
                           TransitionLeaseStatusUpdate(nextStatus,
                                                       leaseStatusReason, t),
                           TransitionLeaseStatusCondition(prevStatus), io) IN
  IF result.err = ConditionalCheckFailedException
  THEN [err |-> StatusTransitionError, tbl |-> result.tbl, val |-> {},
        calls |-> 2]
  ELSE IF result.err # "nil"
  THEN [err |-> BackingStoreError, tbl |-> result.tbl, val |-> {},
        calls |-> 2]
  ELSE [err |-> "nil", tbl |-> result.tbl,
        val |-> {unmarshalLease(i) : i \in result.attrs}, calls |-> 1]

TransitionLeaseStatusCall(tbl, accountID, principalID, prevStatus, nextStatus, leaseStatusReason, t, io) ==
  LET result == UpdateItem(tbl, LeaseKey(accountID, principalID),
                           LeaseKeyAttrs(accountID, principalID),
                           TransitionLeaseStatusUpdate(nextStatus,
                                                       leaseStatusReason, t),
                           TransitionLeaseStatusCondition(prevStatus), io) IN
  IF result.err = ConditionalCheckFailedException
  THEN [err |-> StatusTransitionError, tbl |-> result.tbl, val |-> {},
        calls |-> 1]
  ELSE IF result.err # "nil"
  THEN [err |-> BackingStoreError, tbl |-> result.tbl, val |-> {},
        calls |-> 1]
  ELSE [err |-> "nil", tbl |-> result.tbl,
        val |-> {unmarshalLease(i) : i \in result.attrs}, calls |-> 1]

(***************************************************************************)
(* GetLeaseByID                                                            *)
(***************************************************************************)
NoLeaseFound == "No Lease found"
MoreThanOneLease == "Found more than one Lease"

\* Variant: with several matches, one of them is returned.
GetLeaseByIDCall_FirstMatch(tbl, leaseID, io) ==
  LET resp == Query(tbl, "Id", leaseID, io) IN
  IF resp.err # "nil"
  THEN [err |-> BackingStoreError, val |-> {}, calls |-> 1]
  ELSE IF Cardinality(resp.items) < 1
  THEN [err |-> NoLeaseFound, val |-> {}, calls |-> 1]
  ELSE [err |-> "nil",
        val |-> {unmarshalLease(CHOOSE i \in resp.items : TRUE)},
        calls |-> 1]

GetLeaseByIDCall(tbl, leaseID, io) ==
  LET resp == Query(tbl, "Id", leaseID, io) IN
  IF resp.err # "nil"
  THEN [err |-> BackingStoreError, val |-> {}, calls |-> 1]
  ELSE IF Cardinality(resp.items) < 1
  THEN [err |-> NoLeaseFound, val |-> {}, calls |-> 1]
  ELSE IF Cardinality(resp.items) > 1
  THEN [err |-> MoreThanOneLease, val |-> {}, calls |-> 1]
  ELSE [err |-> "nil", val |-> {unmarshalLease(i) : i \in resp.items},
        calls |-> 1]

(***************************************************************************)
(* FindLeasesByPrincipal                                                   *)
(***************************************************************************)
\* Variant: no match is reported as an error, as GetLeaseByID does.
FindLeasesByPrincipalCall_NoneIsError(tbl, principalID, io) ==
  LET resp == Query(tbl, "PrincipalId", principalID, io) IN
  IF resp.err # "nil"
  THEN [err |-> BackingStoreError, val |-> {}, calls |-> 1]
  ELSE IF Cardinality(resp.items) = 0
  THEN [err |-> NoLeaseFound, val |-> {}, calls |-> 1]
  ELSE [err |-> "nil", val |-> {{unmarshalLease(i) : i \in resp.items}},
        calls |-> 1]

FindLeasesByPrincipalCall(tbl, principalID, io) ==
  LET resp == Query(tbl, "PrincipalId", principalID, io) IN
  IF resp.err # "nil"
  THEN [err |-> BackingStoreError, val |-> {}, calls |-> 1]
  ELSE IF Cardinality(resp.items) = 0
  THEN [err |-> "nil", val |-> {}, calls |-> 1]
  ELSE [err |-> "nil", val |-> {{unmarshalLease(i) : i \in resp.items}},
        calls |-> 1]

(***************************************************************************)
(* State.                                                                  *)
(***************************************************************************)
NoRet == [op |-> "none", args |-> <<>>, err |-> "nil", val |-> {}, calls |-> 0]
NoReq == <<>>
NoCalls == <<>>

AccountItem(id, status) ==
  [Id |-> id, AccountStatus |-> status, LastModifiedOn |-> 0,
   CreatedOn |-> 0, AdminRoleArn |-> "arn:admin", PrincipalRoleArn |-> "arn:principal",
   PrincipalPolicyHash |-> "hash", Metadata |-> "meta"]

\* The account tables the store can be handed: any subset of the accounts,
\* each in any status.
AccountTables ==
  UNION {[ids -> AccountStatuses] : ids \in SUBSET AccountIDs}

AccountTableOf(st) == [id \in DOMAIN st |-> AccountItem(id, st[id])]

EmptyTable == [k \in {} |-> {}]

Tick ==
  /\ now < MaxClock
  /\ now' = now + 1
  /\ UNCHANGED <<accounts, leases, ret, req, calls>>

GetAccount(accountID, io) ==
  LET r == GetAccountCall(accounts, accountID, io) IN
  /\ ret' = [op |-> "GetAccount", args |-> <<accountID>>, err |-> r.err,
             val |-> r.val, calls |-> r.calls]
  /\ UNCHANGED <<accounts, leases, now, req, calls>>

FindAccountsByStatus(status, io) ==
  LET r == FindAccountsByStatusCall(accounts, status, io) IN
  /\ ret' = [op |-> "FindAccountsByStatus", args |-> <<status>>,
             err |-> r.err, val |-> r.val, calls |-> r.calls]
  /\ UNCHANGED <<accounts, leases, now, req, calls>>

TransitionAccountStatus(accountID, prevStatus, nextStatus, io) ==
  LET r == TransitionAccountStatusCall(accounts, accountID, prevStatus,
                                       nextStatus, now, io) IN
  /\ accounts' = r.tbl
  /\ ret' = [op |-> "TransitionAccountStatus",
             args |-> <<accountID, prevStatus, nextStatus>>,
             err |-> r.err, val |-> r.val, calls |-> r.calls]
  /\ UNCHANGED <<leases, now, req, calls>>

InitAccount ==
  /\ \E st \in AccountTables : accounts = AccountTableOf(st)
  /\ leases = EmptyTable
  /\ now = 0
  /\ ret = NoRet
  /\ req = NoReq
  /\ calls = NoCalls

NextAccount ==
  \/ Tick
  \/ \E a \in AccountIDs, io \in BOOLEAN : GetAccount(a, io)
  \/ \E s \in AccountStatuses, io \in BOOLEAN : FindAccountsByStatus(s, io)
  \/ \E a \in AccountIDs, p \in AccountStatuses, n \in AccountStatuses,
        io \in BOOLEAN : TransitionAccountStatus(a, p, n, io)

SpecAccount == InitAccount /\ [][NextAccount]_vars

(***************************************************************************)
(* Concurrent identical calls: every caller has issued the same            *)
(* TransitionAccountStatus(req[1], req[2], req[3]) while the account was   *)
(* in status req[2]; the calls reach the table in any order.               *)
(***************************************************************************)
Pending == "pending"

ConcurrentTransitionAccountStatus(c, io) ==
  LET r == TransitionAccountStatusCall(accounts, req[1], req[2], req[3],
                                       now, io) IN
  /\ calls[c] = Pending
  /\ accounts' = r.tbl
  /\ calls' = [calls EXCEPT ![c] = r.err]
  /\ ret' = [op |-> "TransitionAccountStatus", args |-> req,
             err |-> r.err, val |-> r.val, calls |-> r.calls]
  /\ UNCHANGED <<leases, now, req>>

InitIdentical ==
  /\ \E st \in AccountTables, a \in AccountIDs, n \in AccountStatuses :
        /\ a \in DOMAIN st
        /\ accounts = AccountTableOf(st)
        /\ req = <<a, st[a], n>>
  /\ leases = EmptyTable
  /\ now = 0
  /\ ret = NoRet
  /\ calls = [c \in Callers |-> Pending]

NextIdentical ==
  \/ Tick
  \/ \E c \in Callers, io \in BOOLEAN : ConcurrentTransitionAccountStatus(c, io)

SpecIdentical == InitIdentical /\ [][NextIdentical]_vars

(***************************************************************************)
(* Concurrent calls of any callers on one account: every caller issues one *)
(* TransitionAccountStatus(req[1], p, n) with arguments of its own, and    *)
(* the calls reach the table in any order.  req keeps the history: req[2]  *)
(* is the status the account had at first, req[3] the <<p, n>> of the      *)
(* calls that succeeded, in their order, req[4] the prevStatus values of   *)
(* all the calls made, req[5] whether every call made had n # p.           *)
(***************************************************************************)
ChainedTransitionAccountStatus(c, prevStatus, nextStatus, io) ==
  LET r == TransitionAccountStatusCall(accounts, req[1], prevStatus,
                                       nextStatus, now, io) IN
  /\ calls[c] = Pending
  /\ accounts' = r.tbl
  /\ calls' = [calls EXCEPT ![c] = r.err]
  /\ req' = <<req[1], req[2],
              IF r.err = "nil" THEN Append(req[3], <<prevStatus, nextStatus>>)
                               ELSE req[3],
              req[4] \cup {prevStatus},
              req[5] /\ nextStatus # prevStatus>>
  /\ ret' = [op |-> "TransitionAccountStatus",
             args |-> <<req[1], prevStatus, nextStatus>>,
             err |-> r.err, val |-> r.val, calls |-> r.calls]
  /\ UNCHANGED <<leases, now>>

InitChain ==
  /\ \E st \in AccountTables, a \in AccountIDs :
        /\ a \in DOMAIN st
        /\ accounts = AccountTableOf(st)
        /\ req = <<a, st[a], <<>>, {}, TRUE>>
  /\ leases = EmptyTable
  /\ now = 0
  /\ ret = NoRet
  /\ calls = [c \in Callers |-> Pending]

NextChain ==
  \E c \in Callers, p \in AccountStatuses, n \in AccountStatuses, io \in BOOLEAN :
     ChainedTransitionAccountStatus(c, p, n, io)

SpecChain == InitChain /\ [][NextChain]_vars

(***************************************************************************)
(* The lease table under UpsertLease, TransitionLeaseStatus and            *)
(* GetLeaseByID.                                                           *)
(***************************************************************************)
\* The leases callers pass to UpsertLease: any key, a missing or present ID
\* and ExpiresOn, any status and reason; a caller stamps the record with 0
\* (never modified) or with the current time.
InputStamps == {0}

LeaseInputsAt(accountIDs, principalIDs, ids, expiresOns) ==
  [AccountID : accountIDs, PrincipalID : principalIDs, ID : ids,
   ExpiresOn : expiresOns, LeaseStatus : LeaseStatuses,
   LeaseStatusReason : LeaseStatusReasons,
   LastModifiedOn : InputStamps, LeaseStatusModifiedOn : InputStamps]

LeaseInputs ==
  LeaseInputsAt(LeaseAccountIDs, PrincipalIDs, LeaseIDs \cup {""},
                ExpiresOnValues \cup {0})

\* What ret keeps of the lease passed to UpsertLease.
UpsertLeaseArgs(lease) ==
  <<lease.AccountID, lease.PrincipalID, lease.ID, lease.ExpiresOn>>

UpsertLease(lease, io) ==
  LET r == UpsertLeaseCall(leases, lease, io) IN
  /\ leases' = r.tbl
  /\ ret' = [op |-> "UpsertLease",
             args |-> UpsertLeaseArgs(lease),
             err |-> r.err,
             val |-> r.val, calls |-> r.calls]
  /\ UNCHANGED <<accounts, now, req, calls>>

TransitionLeaseStatus(accountID, principalID, prevStatus, nextStatus, leaseStatusReason, io) ==
  LET r == TransitionLeaseStatusCall(leases, accountID, principalID,
                                     prevStatus, nextStatus,
                                     leaseStatusReason, now, io) IN
  /\ leases' = r.tbl
  /\ ret' = [op |-> "TransitionLeaseStatus",
             args |-> <<accountID, principalID>>,
             err |-> r.err,
             val |-> r.val, calls |-> r.calls]
  /\ UNCHANGED <<accounts, now, req, calls>>

GetLeaseByID(leaseID, io) ==
  LET r == GetLeaseByIDCall(leases, leaseID, io) IN
  /\ ret' = [op |-> "GetLeaseByID", args |-> <<leaseID>>, err |-> r.err,
             val |-> r.val, calls |-> r.calls]
  /\ UNCHANGED <<accounts, leases, now, req, calls>>

InitLease ==
  /\ accounts = AccountTableOf([id \in AccountIDs |-> "Leased"])
  /\ leases = EmptyTable
  /\ now = 0
  /\ ret = NoRet
  /\ req = NoReq
  /\ calls = NoCalls

NextLease ==
  \/ Tick
  \/ \E l \in LeaseInputs, io \in BOOLEAN : UpsertLease(l, io)
  \/ \E a \in LeaseAccountIDs, u \in PrincipalIDs, p \in LeaseStatuses,
        n \in LeaseStatuses, r \in LeaseStatusReasons, io \in BOOLEAN :
        TransitionLeaseStatus(a, u, p, n, r, io)
  \/ \E id \in LeaseIDs, io \in BOOLEAN : GetLeaseByID(id, io)

SpecLease == InitLease /\ [][NextLease]_vars

(***************************************************************************)
(* The lease table, with leases on both accounts, under UpsertLease and    *)
(* FindLeasesByPrincipal.                                                  *)
(***************************************************************************)
\* Valid leases of any principal on any account.
PrincipalLeaseInputs ==
  {l \in LeaseInputsAt(AccountIDs, PrincipalIDs, {"lease-1"}, ExpiresOnValues) :
     l.LeaseStatusReason = "Expired"}

FindLeasesByPrincipal(principalID, io) ==
  LET r == FindLeasesByPrincipalCall(leases, principalID, io) IN
  /\ ret' = [op |-> "FindLeasesByPrincipal", args |-> <<principalID>>,
             err |-> r.err, val |-> r.val, calls |-> r.calls]
  /\ UNCHANGED <<accounts, leases, now, req, calls>>

NextPrincipal ==
  \/ \E l \in PrincipalLeaseInputs, io \in BOOLEAN : UpsertLease(l, io)
  \/ \E u \in PrincipalIDs, io \in BOOLEAN : FindLeasesByPrincipal(u, io)

SpecPrincipal == InitLease /\ [][NextPrincipal]_vars

(***************************************************************************)
(* The store: the seven methods of DBer on the two tables.  One account is *)
(* stored and one is not; leases are upserted for both principals on the   *)
(* lease account, valid or not.                                            *)
(***************************************************************************)
StoredAccountIDs == {"111"}
StoreReasons == {"Expired"}

StoreLeaseInputs ==
  {l \in LeaseInputsAt(LeaseAccountIDs, PrincipalIDs, {"lease-1", ""}, ExpiresOnValues \cup {0}) :
     l.LeaseStatusReason \in StoreReasons}

Init ==
  /\ accounts = AccountTableOf([id \in StoredAccountIDs |-> "Ready"])
  /\ leases = EmptyTable
  /\ now = 0
  /\ ret = NoRet
  /\ req = NoReq
  /\ calls = NoCalls

Next ==
  \/ Tick
  \/ \E a \in AccountIDs, io \in BOOLEAN : GetAccount(a, io)
  \/ \E s \in AccountStatuses, io \in BOOLEAN : FindAccountsByStatus(s, io)
  \/ \E a \in AccountIDs, p \in AccountStatuses, n \in AccountStatuses,
        io \in BOOLEAN : TransitionAccountStatus(a, p, n, io)
  \/ \E l \in StoreLeaseInputs, io \in BOOLEAN : UpsertLease(l, io)
  \/ \E a \in LeaseAccountIDs, u \in PrincipalIDs, p \in LeaseStatuses,
        n \in LeaseStatuses, r \in StoreReasons, io \in BOOLEAN :
        TransitionLeaseStatus(a, u, p, n, r, io)
  \/ \E id \in LeaseIDs, io \in BOOLEAN : GetLeaseByID(id, io)
  \/ \E u \in PrincipalIDs, io \in BOOLEAN : FindLeasesByPrincipal(u, io)

Spec == Init /\ [][Next]_vars

(***************************************************************************)
(* The expression builder applied to a request: req is the request (the    *)
(* object, the exclude-list, the include-list), ret the expression built.  *)
(***************************************************************************)
\* Names the lists of a request may hold: fields of the object and a name
\* that is no field of it.
ListedNames == {"AccountID", "PrincipalID", "LeaseStatus", "NoSuchField"}

BuilderObjects ==
  LeaseInputsAt(LeaseAccountIDs, {"u1"}, {"lease-1"}, ExpiresOnValues)

BuildUpdateExpression ==
  LET e == buildUpdateExpression(req[1], req[2], req[3]) IN
  /\ ret' = [op |-> "buildUpdateExpression", args |-> <<>>, err |-> e.err,
             val |-> IF e.err = ConfigurationError THEN {} ELSE {e.sets},
             calls |-> 0]
  /\ UNCHANGED <<accounts, leases, now, req, calls>>

InitBuilder ==
  /\ accounts = EmptyTable
  /\ leases = EmptyTable
  /\ now = 0
  /\ ret = NoRet
  /\ \E obj \in BuilderObjects, ex \in SUBSET ListedNames, inc \in SUBSET ListedNames :
        req = <<obj, ex, inc>>
  /\ calls = NoCalls

NextBuilder == BuildUpdateExpression

SpecBuilder == InitBuilder /\ [][NextBuilder]_vars

(***************************************************************************)
(* Both tables under the writing methods, started at any time of the       *)
(* clock: both accounts are stored, and valid leases are upserted for both *)
(* principals on the lease account.                                        *)
(***************************************************************************)
FrameLeaseInputs ==
  {l \in LeaseInputsAt(LeaseAccountIDs, PrincipalIDs, {"lease-1"}, ExpiresOnValues) :
     l.LeaseStatusReason \in StoreReasons}

InitFrame ==
  /\ accounts = AccountTableOf([id \in AccountIDs |-> "Ready"])
  /\ leases = EmptyTable
  /\ now \in Times
  /\ ret = NoRet
  /\ req = NoReq
  /\ calls = NoCalls

NextFrame ==
  \/ \E a \in AccountIDs, p \in AccountStatuses, n \in AccountStatuses,
        io \in BOOLEAN : TransitionAccountStatus(a, p, n, io)
  \/ \E l \in FrameLeaseInputs, io \in BOOLEAN : UpsertLease(l, io)
  \/ \E a \in LeaseAccountIDs, u \in PrincipalIDs, p \in LeaseStatuses,
        n \in LeaseStatuses, r \in StoreReasons, io \in BOOLEAN :
        TransitionLeaseStatus(a, u, p, n, r, io)

SpecFrame == InitFrame /\ [][NextFrame]_vars

(***************************************************************************)
(* A caller that writes back a lease it read earlier, next to callers that *)
(* transition the leases.  Both principals hold a lease, written by        *)
(* UpsertLease.  req is <<>> or holds the lease the caller has read; calls *)
(* is <<>> or holds the nextStatus of the last transition that succeeded   *)
(* on that lease since it was read.                                        *)
(***************************************************************************)
\* The item that stores a lease: every field under its serialized name.
LeaseItem(lease) ==
  [a \in {FieldTag(f) : f \in LeaseFields} |->
     lease[CHOOSE f \in LeaseFields : FieldTag(f) = a]]

\* The lease tables the caller can find: a lease of each principal, as the
\* first UpsertLease of each has stored it.
StoredLeaseTables ==
  {[k \in {LeaseKey(l1.AccountID, l1.PrincipalID), LeaseKey(l2.AccountID, l2.PrincipalID)} |->
      IF k = LeaseKey(l1.AccountID, l1.PrincipalID) THEN LeaseItem(l1) ELSE LeaseItem(l2)] :
     l1 \in {l \in LeaseInputsAt(LeaseAccountIDs, {"u1"}, {"lease-1"}, ExpiresOnValues) : l.LeaseStatusReason \in StoreReasons},
     l2 \in {l \in LeaseInputsAt(LeaseAccountIDs, {"u2"}, {"lease-2"}, ExpiresOnValues) : l.LeaseStatusReason \in StoreReasons}}

\* The caller reads a lease and keeps it.
ReadLeaseByID(leaseID, io) ==
  LET r == GetLeaseByIDCall(leases, leaseID, io) IN
  /\ ret' = [op |-> "GetLeaseByID", args |-> <<leaseID>>, err |-> r.err,
             val |-> r.val, calls |-> r.calls]
  /\ req' = IF r.err = "nil" THEN <<CHOOSE l \in r.val : TRUE>> ELSE req
  /\ calls' = IF r.err = "nil" THEN <<>> ELSE calls
  /\ UNCHANGED <<accounts, leases, now>>

\* Another caller transitions a lease.
InterleavedTransitionLeaseStatus(accountID, principalID, prevStatus, nextStatus, leaseStatusReason, io) ==
  LET r == TransitionLeaseStatusCall(leases, accountID, principalID,
                                     prevStatus, nextStatus,
                                     leaseStatusReason, now, io) IN
  /\ leases' = r.tbl
  /\ ret' = [op |-> "TransitionLeaseStatus",
             args |-> <<accountID, principalID>>,
             err |-> r.err,
             val |-> r.val, calls |-> r.calls]
  /\ calls' = IF /\ r.err = "nil"
                 /\ req # <<>>
                 /\ req[1].AccountID = accountID
                 /\ req[1].PrincipalID = principalID
              THEN <<nextStatus>> ELSE calls
  /\ UNCHANGED <<accounts, now, req>>

\* The caller writes back the lease it holds.
UpsertHeldLease(io) ==
  /\ req # <<>>
  /\ UpsertLease(req[1], io)

InitStale ==
  /\ accounts = AccountTableOf([id \in AccountIDs |-> "Leased"])
  /\ leases \in StoredLeaseTables
  /\ now \in Times
  /\ ret = NoRet
  /\ req = NoReq
  /\ calls = NoCalls

NextStale ==
  \/ \E id \in LeaseIDs, io \in BOOLEAN : ReadLeaseByID(id, io)
  \/ \E a \in LeaseAccountIDs, u \in PrincipalIDs, p \in LeaseStatuses,
        n \in LeaseStatuses, r \in StoreReasons, io \in BOOLEAN :
        InterleavedTransitionLeaseStatus(a, u, p, n, r, io)
  \/ \E io \in BOOLEAN : UpsertHeldLease(io)

SpecStale == InitStale /\ [][NextStale]_vars

(***************************************************************************)
(* Properties of the account table.                                        *)
(*                                                                         *)
(* A property of a method is stated of the steps that return from it: ret' *)
(* names the method and its arguments, the unprimed tables are the tables  *)
(* the call found and the primed ones the tables it left.                  *)
(***************************************************************************)
StoredStatusIs(tbl, accountID, status) ==
  accountID \in DOMAIN tbl /\ tbl[accountID].AccountStatus = status

AllReturned == \A c \in Callers : calls[c] # Pending
Answered == \A c \in Callers : calls[c] # BackingStoreError
Succeeded == {c \in Callers : calls[c] = "nil"}
Refused == {c \in Callers : calls[c] = StatusTransitionError}

\* C1 as stated: once all the concurrent identical calls
\* TransitionAccountStatus(A, S, S') have returned (the table having answered
\* each of them), exactly one has succeeded and every other one has received
\* a StatusTransitionError, for every S and S'.
C1_ExactlyOneSucceeds ==
  (AllReturned /\ Answered) =>
     (Cardinality(Succeeded) = 1 /\ Succeeded \cup Refused = Callers)

\* C1 amended: when S' # S exactly one of the concurrent identical calls
\* succeeds and every other one receives a StatusTransitionError; when S' = S
\* the guard still holds after the first write and every call succeeds.
C1_ExactlyOneSucceedsWhenStatusChanges ==
  (AllReturned /\ Answered) =>
     IF req[2] # req[3]
     THEN Cardinality(Succeeded) = 1 /\ Succeeded \cup Refused = Callers
     ELSE Succeeded = Callers

C1_Witness ==
  /\ AllReturned
  /\ req[2] # req[3]
  /\ Cardinality(Succeeded) = 1
  /\ Cardinality(Refused) = NumCallers - 1
  /\ StoredStatusIs(accounts, req[1], req[3])

\* The step returns from TransitionAccountStatus(a, p, n), called while the
\* stored status of a is not p.
MismatchedTransition(a, p, n, io) ==
  /\ TransitionAccountStatus(a, p, n, io)
  /\ ~StoredStatusIs(accounts, a, p)

\* C2 as stated: TransitionAccountStatus(A, S, S') called while the stored
\* status of A is not S returns a StatusTransitionError and nothing else.
C2_MismatchAlwaysStatusTransitionError ==
  [][ret'.op = "TransitionAccountStatus" =>
       \A io \in BOOLEAN :
          MismatchedTransition(ret'.args[1], ret'.args[2], ret'.args[3], io)
             => ret'.err = StatusTransitionError]_vars

\* C2 amended: TransitionAccountStatus(A, S, S') called while the stored
\* status of A is not S never succeeds and never writes; it returns a
\* StatusTransitionError when the table evaluated the condition, and the
\* table's own error when the UpdateItem call itself failed.
C2_MismatchNeverSucceeds ==
  [][ret'.op = "TransitionAccountStatus" =>
       \A io \in BOOLEAN :
          MismatchedTransition(ret'.args[1], ret'.args[2], ret'.args[3], io)
             => /\ ret'.err = IF io THEN StatusTransitionError
                                    ELSE BackingStoreError
                /\ ret'.val = {}
                /\ accounts' = accounts]_vars

C2_Witness ==
  /\ ret.op = "TransitionAccountStatus"
  /\ ret.err = StatusTransitionError
  /\ ret.args[1] \in DOMAIN accounts
  /\ accounts[ret.args[1]].AccountStatus # ret.args[2]
  /\ accounts[ret.args[1]].AccountStatus # ret.args[3]

\* The effect of a transition whose guard holds and whose update the table
\* answered: success, the stored status is nextStatus, and the returned record
\* is the stored record, with Status = nextStatus and LastModifiedOn = the time
\* of the call.
TransitionAccountStatusSucceeds(a, p, n) ==
  (TransitionAccountStatus(a, p, n, TRUE) /\ StoredStatusIs(accounts, a, p))
     => /\ ret'.err = "nil"
        /\ StoredStatusIs(accounts', a, n)
        /\ ret'.val = {unmarshalAccount(accounts'[a])}
        /\ \A v \in ret'.val : v.Status = n /\ v.LastModifiedOn = now
        /\ Attr(accounts'[a], "LastModifiedOn", -1) = now

\* The step is a second TransitionAccountStatus(a, p, n), answered by the
\* table, right after one that succeeded.
SecondTransitionAccountStatus(a, p, n) ==
  /\ ret.op = "TransitionAccountStatus"
  /\ ret.args = <<a, p, n>>
  /\ ret.err = "nil"
  /\ TransitionAccountStatus(a, p, n, TRUE)

\* C3 as stated: from stored status prevStatus the transition succeeds, stores
\* nextStatus and returns the post-write record with a refreshed
\* LastModifiedOn; a second call with the same arguments then fails with a
\* StatusTransitionError.
C3_TransitionThenSecondCallFails ==
  [][ret'.op = "TransitionAccountStatus" =>
       LET a == ret'.args[1]
           p == ret'.args[2]
           n == ret'.args[3]
       IN /\ TransitionAccountStatusSucceeds(a, p, n)
          /\ SecondTransitionAccountStatus(a, p, n)
               => ret'.err = StatusTransitionError]_vars

\* C3 amended: as C3, the second call failing with a StatusTransitionError
\* when nextStatus # prevStatus; when nextStatus = prevStatus the second call
\* succeeds again.
C3_TransitionThenSecondCallFailsWhenStatusChanges ==
  [][ret'.op = "TransitionAccountStatus" =>
       LET a == ret'.args[1]
           p == ret'.args[2]
           n == ret'.args[3]
       IN /\ TransitionAccountStatusSucceeds(a, p, n)
          /\ SecondTransitionAccountStatus(a, p, n)
               => ret'.err = IF n # p THEN StatusTransitionError ELSE "nil"]_vars

C3_Witness ==
  /\ ret.op = "TransitionAccountStatus"
  /\ ret.err = StatusTransitionError
  /\ ret.args[2] # ret.args[3]
  /\ StoredStatusIs(accounts, ret.args[1], ret.args[3])
  /\ accounts[ret.args[1]].LastModifiedOn = now
  /\ now > 0

\* C10: GetAccount of an id with no stored record returns nil and no error;
\* GetAccount returns an error only when the GetItem call itself failed.
C10_GetAccountAbsentIsNil ==
  [][ret'.op = "GetAccount" =>
       LET a == ret'.args[1] IN
       \A io \in BOOLEAN :
          GetAccount(a, io)
             => /\ (a \notin DOMAIN accounts /\ io)
                     => (ret'.err = "nil" /\ ret'.val = {})
                /\ ret'.err # "nil" => ~io
                /\ (a \in DOMAIN accounts /\ io)
                     => (ret'.err = "nil"
                         /\ ret'.val = {unmarshalAccount(accounts[a])})]_vars

C10_Witness ==
  /\ ret.op = "GetAccount"
  /\ ret.args[1] \notin DOMAIN accounts
  /\ ret.err = "nil"
  /\ ret.val = {}

(***************************************************************************)
(* Properties of the lease table.                                          *)
(***************************************************************************)
StoredLeaseStatusIs(tbl, accountID, principalID, status) ==
  /\ LeaseKey(accountID, principalID) \in DOMAIN tbl
  /\ tbl[LeaseKey(accountID, principalID)].LeaseStatus = status

\* The keys of the stored leases that carry the lease id.
LeasesWithID(tbl, leaseID) == {k \in DOMAIN tbl : tbl[k].Id = leaseID}

\* Every item but the one under key k is what it was.
OtherLeasesUnchanged(k) ==
  /\ DOMAIN leases' \ {k} = DOMAIN leases \ {k}
  /\ \A j \in DOMAIN leases \ {k} : leases'[j] = leases[j]

\* The leases a caller may have passed, given what ret keeps of the lease.
LeaseInputsOf(args) ==
  LeaseInputsAt({args[1]}, {args[2]}, {args[3]}, {args[4]})

\* C4: a TransitionLeaseStatus the table answers succeeds if and only if the
\* stored lease has LeaseStatus = prevStatus; on success the stored lease has
\* LeaseStatus = nextStatus, LeaseStatusReason = reason, LastModifiedOn and
\* LeaseStatusModifiedOn = the time of the call, and it is the lease returned;
\* on guard failure the call returns a StatusTransitionError.
C4_TransitionLeaseStatusGuarded ==
  [][ret'.op = "TransitionLeaseStatus" =>
       LET a == ret'.args[1]
           u == ret'.args[2]
           k == LeaseKey(a, u)
       IN \A p \in LeaseStatuses, n \in LeaseStatuses,
             r \in LeaseStatusReasons :
             TransitionLeaseStatus(a, u, p, n, r, TRUE)
                => /\ ret'.err = "nil" <=> StoredLeaseStatusIs(leases, a, u, p)
                   /\ ret'.err = "nil"
                        => /\ leases'[k].LeaseStatus = n
                           /\ leases'[k].LeaseStatusReason = r
                           /\ Attr(leases'[k], "LastModifiedOn", -1) = now
                           /\ Attr(leases'[k], "LeaseStatusModifiedOn", -1) = now
                           /\ ret'.val = {unmarshalLease(leases'[k])}
                   /\ ret'.err # "nil"
                        => /\ ret'.err = StatusTransitionError
                           /\ ret'.val = {}]_vars

C4_Witness ==
  /\ ret.op = "TransitionLeaseStatus"
  /\ ret.err = "nil"
  /\ now > 0
  /\ \E v \in ret.val :
        /\ v.LeaseStatus = "Inactive"
        /\ v.LeaseStatusReason = "Expired"
        /\ v.LastModifiedOn = now
        /\ v.LeaseStatusModifiedOn = now
        /\ leases[LeaseKey(v.AccountID, v.PrincipalID)].LeaseStatus = "Inactive"

\* C5: UpsertLease of a lease with an empty ID or with ExpiresOn = 0 fails
\* with a validation error, issues no call on the table and leaves the lease
\* table unchanged, whatever the other fields and the stored leases.
C5_InvalidLeaseRejectedBeforeWrite ==
  [][ret'.op = "UpsertLease" =>
       \A l \in LeaseInputsOf(ret'.args), io \in BOOLEAN :
          ((l.ID = "" \/ l.ExpiresOn = 0) /\ UpsertLease(l, io))
             => /\ ret'.err \in ValidationErrors
                /\ ret'.val = {}
                /\ ret'.calls = 0
                /\ leases' = leases]_vars

C5_Witness ==
  /\ ret.op = "UpsertLease"
  /\ ret.err = MissingExpiresOn
  /\ ret.args[3] # ""
  /\ ret.args[4] = 0
  /\ ret.calls = 0
  /\ LeaseKey(ret.args[1], ret.args[2]) \in DOMAIN leases

\* C6: no two stored leases with different (AccountID, PrincipalID) keys
\* carry the same ID.
C6_LeaseIDGloballyUnique ==
  \A j \in DOMAIN leases, k \in DOMAIN leases :
     j # k => leases[j].Id # leases[k].Id

\* C7: a GetLeaseByID(lease.ID) that follows a successful UpsertLease(lease)
\* succeeds and returns a lease with the AccountID, PrincipalID, ID and
\* ExpiresOn that were written.
C7_UpsertThenGetLeaseByID ==
  [][(/\ ret.op = "UpsertLease"
      /\ ret.err = "nil"
      /\ ret'.op = "GetLeaseByID"
      /\ GetLeaseByID(ret.args[3], TRUE))
        => /\ ret'.err = "nil"
           /\ ret'.val # {}
           /\ \A v \in ret'.val :
                 <<v.AccountID, v.PrincipalID, v.ID, v.ExpiresOn>> = ret.args]_vars

\* C8: GetLeaseByID returns a lease only when exactly one stored lease has
\* the id, and then returns that lease; answered by the table, it fails with
\* "no lease found" when none has it and with "more than one lease" when two
\* or more have it, returning none of them.
C8_GetLeaseByIDExactlyOne ==
  [][ret'.op = "GetLeaseByID" =>
       LET id == ret'.args[1]
           m == LeasesWithID(leases, id)
       IN \A io \in BOOLEAN :
             GetLeaseByID(id, io)
                => /\ ret'.val # {}
                        => /\ Cardinality(m) = 1
                           /\ ret'.err = "nil"
                           /\ ret'.val = {unmarshalLease(leases[k]) : k \in m}
                   /\ (io /\ Cardinality(m) = 0) => ret'.err = NoLeaseFound
                   /\ (io /\ Cardinality(m) >= 2) => ret'.err = MoreThanOneLease
                   /\ (io /\ Cardinality(m) = 1) => ret'.val # {}]_vars

C8_Witness ==
  /\ ret.op = "GetLeaseByID"
  /\ ret.err = MoreThanOneLease
  /\ ret.val = {}
  /\ Cardinality(LeasesWithID(leases, ret.args[1])) = 2

\* C9: UpsertLease of a valid lease is one unconditional update under
\* (AccountID, PrincipalID): answered by the table it succeeds whatever is
\* stored; after a successful call every non-key field of the stored record
\* equals the input's, the key attributes of the record are the key, and no
\* other lease is modified.
C9_UpsertWritesAllButKey ==
  [][ret'.op = "UpsertLease" =>
       \A l \in LeaseInputsOf(ret'.args), io \in BOOLEAN :
          ((ret'.err = "nil" \/ ValidateLease(l) = "nil") /\ UpsertLease(l, io))
             => LET k == LeaseKey(l.AccountID, l.PrincipalID) IN
                /\ (ValidateLease(l) = "nil" /\ io)
                     => (ret'.err = "nil" /\ ret'.calls = 1)
                /\ ret'.err = "nil"
                     => /\ k \in DOMAIN leases'
                        /\ \A f \in LeaseFields \ {"AccountID", "PrincipalID"} :
                              unmarshalLease(leases'[k])[f] = l[f]
                        /\ DOMAIN leases'[k] = {FieldTag(f) : f \in LeaseFields}
                        /\ leases'[k].AccountId = l.AccountID
                        /\ leases'[k].PrincipalId = l.PrincipalID
                        /\ k \in DOMAIN leases
                             => /\ leases'[k].AccountId = leases[k].AccountId
                                /\ leases'[k].PrincipalId = leases[k].PrincipalId
                        /\ OtherLeasesUnchanged(k)]_vars

C9_Witness ==
  /\ ret.op = "UpsertLease"
  /\ ret.err = "nil"
  /\ Cardinality(DOMAIN leases) = 2
  /\ ret.val = {unmarshalLease(leases[LeaseKey(ret.args[1], ret.args[2])])}
  /\ \E k \in DOMAIN leases :
        k # LeaseKey(ret.args[1], ret.args[2]) /\ leases[k].LastModifiedOn > 0

(***************************************************************************)
(* Properties of the finders.                                              *)
(***************************************************************************)
\* The elements of a returned slice; the nil slice has none.
Elements(slice) == UNION slice

AccountsWithStatus(tbl, status) ==
  {unmarshalAccount(tbl[a]) : a \in {k \in DOMAIN tbl : tbl[k].AccountStatus = status}}

\* C11: FindAccountsByStatus(status) returns exactly the stored accounts
\* whose status is status; when none matches it returns the empty list and
\* no error; the list it returns is never nil; a failure of the backing
\* store is returned as an error.
C11_FindAccountsByStatusExact ==
  [][ret'.op = "FindAccountsByStatus" =>
       LET s == ret'.args[1] IN
       \A io \in BOOLEAN :
          FindAccountsByStatus(s, io)
             => /\ ret'.val # {}
                /\ io => /\ ret'.err = "nil"
                         /\ Elements(ret'.val) = AccountsWithStatus(accounts, s)
                /\ ~io => ret'.err # "nil"]_vars

\* A search answered with one of the two stored accounts, the other being in
\* another status.
C11_Witness ==
  /\ ret.op = "FindAccountsByStatus"
  /\ ret.err = "nil"
  /\ Cardinality(Elements(ret.val)) = 1
  /\ Elements(ret.val) = AccountsWithStatus(accounts, ret.args[1])
  /\ Cardinality(DOMAIN accounts) = 2

LeasesOfPrincipal(tbl, principalID) ==
  {unmarshalLease(tbl[k]) : k \in {j \in DOMAIN tbl : tbl[j].PrincipalId = principalID}}

\* C12: FindLeasesByPrincipal(principalID) returns exactly the stored leases
\* whose PrincipalID is principalID; for a principal without leases it
\* returns an empty result and no error.
C12_FindLeasesByPrincipalExact ==
  [][ret'.op = "FindLeasesByPrincipal" =>
       LET u == ret'.args[1] IN
       \A io \in BOOLEAN :
          (io /\ FindLeasesByPrincipal(u, io))
             => /\ ret'.err = "nil"
                /\ Elements(ret'.val) = LeasesOfPrincipal(leases, u)]_vars

\* A search answered with the two leases of a principal, the table holding
\* a lease of another principal as well.
C12_Witness ==
  /\ ret.op = "FindLeasesByPrincipal"
  /\ ret.err = "nil"
  /\ Cardinality(Elements(ret.val)) = 2
  /\ Elements(ret.val) = LeasesOfPrincipal(leases, ret.args[1])
  /\ Cardinality(DOMAIN leases) > 2

(***************************************************************************)
(* Properties of the store as a whole.                                     *)
(***************************************************************************)
\* The last method returned because its call on the client failed.
StoreFailed ==
  /\ ret.calls = 1
  /\ ret.err \notin {"nil", StatusTransitionError, NoLeaseFound, MoreThanOneLease}

\* C13: a failure of the backing store never reaches the caller as the bare
\* error of the client: whichever of the seven methods it comes from, it is
\* wrapped in a message that names the keys of the record addressed (for
\* UpsertLease, the principal and the account of the lease).
C13_StoreFailuresWrappedWithIdentity ==
  StoreFailed =>
     /\ ret.err # BackingStoreError
     /\ ret.op = "UpsertLease" =>
           ret.err = Wrap(BackingStoreError,
                          FailedToUpdateLease(ret.args[2], ret.args[1])
                             \o " [" \o RequestFailure \o "]")

Returned == ret.op # "none"

\* C14 as stated: every invocation of a method of the store issues exactly
\* one call on the backing store, whatever it returns.
C14_ExactlyOneCall == Returned => ret.calls = 1

\* C14 amended: every invocation issues at most one call on the backing
\* store and none is repeated: an UpsertLease that validation rejects issues
\* none, every other invocation issues exactly one, also when that call
\* fails (guard failure or error of the backing store).
C14_AtMostOneCall ==
  Returned =>
     /\ ret.calls \in {0, 1}
     /\ ret.calls = 0 <=> (ret.op = "UpsertLease" /\ ret.err \in ValidationErrors)

\* A transition of a stored lease that the guard refused, after one call.
C14_Witness ==
  /\ ret.op = "TransitionLeaseStatus"
  /\ ret.err = StatusTransitionError
  /\ ret.calls = 1
  /\ LeaseKey(ret.args[1], ret.args[2]) \in DOMAIN leases

\* C15: no method of the store deletes a record: over every step the keys of
\* the account table and the (AccountID, PrincipalID) keys of the lease
\* table are kept; a lease key appears only by an UpsertLease of that pair,
\* and a stored lease changes only by an UpsertLease or a
\* TransitionLeaseStatus of its pair.
C15_NoRecordDeleted ==
  [][/\ DOMAIN accounts \subseteq DOMAIN accounts'
     /\ DOMAIN leases \subseteq DOMAIN leases'
     /\ \A k \in DOMAIN leases' \ DOMAIN leases :
           /\ ret'.op = "UpsertLease"
           /\ k = LeaseKey(ret'.args[1], ret'.args[2])
     /\ \A k \in DOMAIN leases :
           leases'[k] # leases[k]
              => /\ ret'.op \in {"UpsertLease", "TransitionLeaseStatus"}
                 /\ k = LeaseKey(ret'.args[1], ret'.args[2])]_vars

\* Both leases are stored, and the last call was a transition that updated
\* one of them.
C15_Witness ==
  /\ ret.op = "TransitionLeaseStatus"
  /\ ret.err = "nil"
  /\ DOMAIN leases = {LeaseKey(a, u) : a \in LeaseAccountIDs, u \in PrincipalIDs}
  /\ DOMAIN accounts = StoredAccountIDs

ActiveLeasesOn(tbl, accountID) ==
  {k \in DOMAIN tbl : tbl[k].AccountId = accountID /\ tbl[k].LeaseStatus = "Active"}

\* C16: in every reachable state at most one lease with LeaseStatus Active
\* is stored for any AccountID.
C16_OneActiveLeasePerAccount ==
  \A a \in LeaseAccountIDs : Cardinality(ActiveLeasesOn(leases, a)) <= 1

(***************************************************************************)
(* Properties of the expression builder.                                   *)
(***************************************************************************)
\* The fields the request asks to assign.
RequestedFields(obj, excludeFields, includeFields) ==
  IF excludeFields # {} THEN DOMAIN obj \ excludeFields
  ELSE IF includeFields # {} THEN DOMAIN obj \cap includeFields
  ELSE DOMAIN obj

\* C17: with both lists non-empty the builder returns a configuration error
\* and no expression; otherwise the fields the expression assigns are the
\* fields of the object minus the exclude-list when there is one, the fields
\* of the object in the include-list when there is one, all its fields when
\* both lists are empty, each under its serialized name and with the value
\* the object has for it.
C17_BuilderAssignsRequestedFields ==
  ret.op = "buildUpdateExpression" =>
     LET obj == req[1]
         fields == RequestedFields(obj, req[2], req[3])
     IN
     IF req[2] # {} /\ req[3] # {}
     THEN ret.err = ConfigurationError /\ ret.val = {}
     ELSE /\ ret.err # ConfigurationError
          /\ \E sets \in ret.val :
                /\ DOMAIN sets = {FieldTag(f) : f \in fields}
                /\ \A f \in fields : sets[FieldTag(f)] = obj[f]

\* An expression built from an include-list that names two fields of the
\* object and a name that is no field of it.
C17_Witness ==
  /\ ret.op = "buildUpdateExpression"
  /\ ret.err = "nil"
  /\ req[2] = {}
  /\ req[3] = {"PrincipalID", "LeaseStatus", "NoSuchField"}
  /\ \E sets \in ret.val : DOMAIN sets = {"PrincipalId", "LeaseStatus"}

(***************************************************************************)
(* Properties of concurrent transitions of one account.                    *)
(***************************************************************************)
\* The status the successful calls have left: the nextStatus of the last of
\* them, or the initial status when none has succeeded.
ChainEnd == IF req[3] = <<>> THEN req[2] ELSE req[3][Len(req[3])][2]

\* C18: the successful TransitionAccountStatus calls on one account form a
\* chain: the prevStatus of each is the nextStatus of the successful call
\* right before it (the initial status for the first), and the stored status
\* is the nextStatus of the last.  Hence when all the calls made share one
\* prevStatus S and have targets other than S, at most one has succeeded and
\* the stored status is the nextStatus of that one.
C18_SuccessfulCallsFormChain ==
  /\ \A i \in 1..Len(req[3]) :
        req[3][i][1] = IF i = 1 THEN req[2] ELSE req[3][i - 1][2]
  /\ StoredStatusIs(accounts, req[1], ChainEnd)
  /\ (Cardinality(req[4]) = 1 /\ req[5])
        => /\ Len(req[3]) <= 1
           /\ Cardinality(Succeeded) <= 1
           /\ Succeeded # {} => StoredStatusIs(accounts, req[1], req[3][1][2])

\* All the callers called with the same prevStatus and targets other than
\* it; one has won and the others were refused.
C18_Witness ==
  /\ AllReturned
  /\ Cardinality(req[4]) = 1
  /\ req[5]
  /\ Cardinality(Succeeded) = 1
  /\ Cardinality(Refused) = NumCallers - 1
  /\ StoredStatusIs(accounts, req[1], req[3][1][2])

\* All the callers have succeeded one after the other, each from the status
\* the one before it had stored, through different statuses.
C18_WitnessChain ==
  /\ Succeeded = Callers
  /\ \E i \in 1..Len(req[3]) : req[3][i][1] # req[3][i][2] /\ req[3][i][1] # req[2]

C20_TransitionNeverCreates ==
  [][/\ (ret'.op = "TransitionAccountStatus" /\ ret'.args[1] \notin DOMAIN accounts)
          => \A io \in BOOLEAN :
                TransitionAccountStatus(ret'.args[1], ret'.args[2], ret'.args[3], io)
                   => /\ ret'.err # "nil"
                      /\ io => ret'.err = StatusTransitionError
                      /\ ret'.args[1] \notin DOMAIN accounts'
     /\ (/\ ret'.op = "TransitionLeaseStatus"
         /\ LeaseKey(ret'.args[1], ret'.args[2]) \notin DOMAIN leases)
          => \A p \in LeaseStatuses, n \in LeaseStatuses, r \in LeaseStatusReasons, io \in BOOLEAN :
                TransitionLeaseStatus(ret'.args[1], ret'.args[2], p, n, r, io)
                   => /\ ret'.err # "nil"
                      /\ io => ret'.err = StatusTransitionError
                      /\ LeaseKey(ret'.args[1], ret'.args[2]) \notin DOMAIN leases']_vars

\* A transition of a lease that is not stored was refused, and the pair is
\* still absent from the table, which holds the lease of the other principal.
C20_Witness ==
  /\ ret.op = "TransitionLeaseStatus"
  /\ ret.err = StatusTransitionError
  /\ LeaseKey(ret.args[1], ret.args[2]) \notin DOMAIN leases
  /\ leases # EmptyTable

(***************************************************************************)
(* Frame of the successful transitions.                                    *)
(***************************************************************************)
\* The item after differs from the item before in the attributes of written
\* at most.
ChangesOnly(before, after, written) ==
  /\ DOMAIN after = DOMAIN before
  /\ \A a \in DOMAIN before \ written : after[a] = before[a]

OthersUnchanged(tbl, tblAfter, key) ==
  /\ DOMAIN tblAfter = DOMAIN tbl
  /\ \A k \in DOMAIN tbl \ {key} : tblAfter[k] = tbl[k]

\* C21: a successful TransitionAccountStatus changes the AccountStatus and
\* LastModifiedOn of the addressed account and nothing else: its other
\* attributes, every other account and the lease table are as before.  A
\* successful TransitionLeaseStatus changes LeaseStatus, LeaseStatusReason,
\* LastModifiedOn and LeaseStatusModifiedOn of the addressed lease and
\* nothing else: its Id and ExpiresOn, every other lease and the account
\* table are as before.
C21_SuccessfulTransitionFrame ==
  [][/\ (ret'.op = "TransitionAccountStatus" /\ ret'.err = "nil")
          => LET a == ret'.args[1] IN
             /\ a \in DOMAIN accounts
             /\ ChangesOnly(accounts[a], accounts'[a], {"AccountStatus", "LastModifiedOn"})
             /\ OthersUnchanged(accounts, accounts', a)
             /\ leases' = leases
     /\ (ret'.op = "TransitionLeaseStatus" /\ ret'.err = "nil")
          => LET k == LeaseKey(ret'.args[1], ret'.args[2]) IN
             /\ k \in DOMAIN leases
             /\ ChangesOnly(leases[k], leases'[k],
                            {"LeaseStatus", "LeaseStatusReason", "LastModifiedOn", "LeaseStatusModifiedOn"})
             /\ leases'[k].Id = leases[k].Id
             /\ leases'[k].ExpiresOn = leases[k].ExpiresOn
             /\ OthersUnchanged(leases, leases', k)
             /\ accounts' = accounts]_vars

\* A transition has moved one account to another status and stamped it with
\* the time of the call, while the other account and two leases are stored.
C21_Witness ==
  /\ ret.op = "TransitionAccountStatus"
  /\ ret.err = "nil"
  /\ ret.args[2] # ret.args[3]
  /\ StoredStatusIs(accounts, ret.args[1], ret.args[3])
  /\ accounts[ret.args[1]].LastModifiedOn = now
  /\ now > 0
  /\ accounts[ret.args[1]].Metadata = "meta"
  /\ Cardinality(DOMAIN accounts) = 2
  /\ Cardinality(DOMAIN leases) = 2

(***************************************************************************)
(* UpsertLease against the stored status.                                  *)
(***************************************************************************)
HeldKey == LeaseKey(req[1].AccountID, req[1].PrincipalID)

\* C22: UpsertLease is not guarded by the stored status: the write-back of a
\* valid lease read earlier, answered by the table, succeeds whatever
\* LeaseStatus is stored and leaves the status of the lease written back in
\* the table, and it never returns a StatusTransitionError; a transition that
\* succeeds leaves its nextStatus in the table: the last write wins.
C22_UpsertLeaseNotGuarded ==
  [][/\ (ret'.op = "UpsertLease" /\ req # <<>>)
          => \A io \in BOOLEAN :
                UpsertHeldLease(io)
                   => /\ ret'.err # StatusTransitionError
                      /\ io => /\ ret'.err = "nil"
                               /\ StoredLeaseStatusIs(leases', req[1].AccountID, req[1].PrincipalID, req[1].LeaseStatus)
     /\ (ret'.op = "TransitionLeaseStatus" /\ ret'.err = "nil")
          => \E v \in ret'.val :
                StoredLeaseStatusIs(leases', ret'.args[1], ret'.args[2], v.LeaseStatus)]_vars

\* The caller read the lease in one status, a transition then succeeded and
\* stored another status, and the write-back has succeeded and put the
\* status read back in the table.
C22_Witness ==
  /\ req # <<>>
  /\ calls # <<>>
  /\ calls[1] # req[1].LeaseStatus
  /\ ret.op = "UpsertLease"
  /\ ret.err = "nil"
  /\ StoredLeaseStatusIs(leases, req[1].AccountID, req[1].PrincipalID, req[1].LeaseStatus)

====
